---- MODULE Spec2Model ----
(***************************************************************************)
(* Model of src/streamlit_app.py: the Dividend Receivable Report           *)
(* generator.  One run of the script body (lines 33-146) is a sequence of  *)
(* steps: read the deal text, filter it by date, split the report, run     *)
(* the two validation checks, left-join, compute NPI Base and its total,   *)
(* inject the total row into the summary, and offer the workbook.          *)
(*                                                                         *)
(* Abstractions.  A deal data line is kept as the number of its fields     *)
(* (width) and the text of the three fields the program reads: xd_date     *)
(* (column 4), net_domestic_amount_to_purify (column 26) and isin (column  *)
(* 27).  A report row is kept as its cells in column 0, column 3, the      *)
(* column headed 'Security Sedol' and the column headed 'Accured Income    *)
(* Net (Base)'.  A number-or-missing value is a set of integers: {} is     *)
(* NaN, {v} is the number v.  Ratios are in hundredths (0.05 is 5), so     *)
(* NPI Base values are in hundredths too.                                  *)
(***************************************************************************)
EXTENDS Integers, Sequences, FiniteSets, TLC

VARIABLES
    pc,                 \* position of the run in the script
    calculation_date,   \* st.date_input value, YYYYMMDD as a number
    deal_lines,         \* lines of the uploaded deal text
    report_df,          \* grid read from the uploaded workbook
    deal_df,            \* parsed deal rows (xd_date already converted)
    deal_df_filtered,   \* deal rows with xd_date <= calculation_date
    summary_df,         \* summary block (later with the injected row)
    details_df,         \* details block (later the enriched rows)
    merged_df,          \* result of pd.merge
    warnings,           \* what st.warning has shown
    npi_base_total,     \* sum of the NPI Base column
    error,              \* exception reported by st.error ("" if none)
    output,             \* workbook offered by st.download_button (<<>> if none)
    trail               \* the positions the run has been in, oldest first

vars == <<pc, calculation_date, deal_lines, report_df, deal_df, deal_df_filtered,
          summary_df, details_df, merged_df, warnings, npi_base_total, error, output,
          trail>>

----------------------------------------------------------------------------
(* Bounds of the model *)

MaxDeal == 2
MaxDetails == 2
MaxRagged == 3
MaxSummary == 2

(* Program constants *)

NumColumns == 46
XdDateCol == 4
RatioCol == 26
IsinCol == 27
HeaderOffset == 2

DetailsMarker == "DIVIDENDS RECIEVABLE DEATAILS"
SedolName == "Security Sedol"
AccruedName == "Accured Income Net (Base)"
TotalLabel == "Total"
TotalNpiLabel == "Total NPI"

None == "<None>"        \* Python None / a field the row does not have
NaT == 0                \* pandas NaT
NaN == {}               \* missing number
BlankCell == ""         \* empty workbook cell (read as NaN) / empty text

----------------------------------------------------------------------------
(* Sequences of bounded length over a set *)

SeqUpTo(S, n) == UNION {[1..k -> S] : k \in 0..n}

RECURSIVE SumSeq(_)
SumSeq(s) == IF s = <<>> THEN 0 ELSE Head(s) + SumSeq(Tail(s))

----------------------------------------------------------------------------
(* Text conversions *)

\* str.strip() on the field texts of the model
strip(t) ==
    CASE t = "A " -> "A"
      [] t = " B" -> "B"
      [] t = "0.05 " -> "0.05"
      [] OTHER -> t

\* the digits of a text read as a number; 0 when the text is not 8 digits
DateDigits(t) ==
    CASE t = "20250228" -> 20250228
      [] t = "20250229" -> 20250229
      [] t = "20250323" -> 20250323
      [] t = "20250324" -> 20250324
      [] t = "20251301" -> 20251301
      [] OTHER -> 0

IsLeap(y) == (y % 4 = 0 /\ y % 100 # 0) \/ y % 400 = 0

DaysInMonth(y, m) ==
    IF m = 2 THEN (IF IsLeap(y) THEN 29 ELSE 28)
    ELSE IF m \in {4, 6, 9, 11} THEN 30 ELSE 31

\* pd.to_datetime(text, format='%Y%m%d', errors='coerce')
to_datetime(t) ==
    LET n == DateDigits(t)
        y == n \div 10000
        m == (n \div 100) % 100
        d == n % 100
    IN  IF n > 0 /\ m \in 1..12 /\ d >= 1 /\ d <= DaysInMonth(y, m) THEN n ELSE NaT

\* pd.to_numeric(text, errors='coerce'): {} is NaN
to_numeric(t) ==
    CASE t = "0.05" -> {5}
      [] t = "0.10" -> {10}
      [] t = "0" -> {0}
      [] t = "100" -> {100}
      [] t = "1000" -> {1000}
      [] OTHER -> NaN

\* Series.replace('', np.nan) followed by to_numeric
replace_blank_to_numeric(t) == IF t = "" THEN NaN ELSE to_numeric(t)

\* astype(str) of a workbook cell
astype_str(c) == IF c = BlankCell THEN "nan" ELSE c

\* product of two number-or-missing values: missing propagates
Times(a, b) == {x * y : x \in a, y \in b}

\* Series.fillna(0)
fillna0(a) == IF a = NaN THEN {0} ELSE a

ValueOf(a) == CHOOSE v \in a : TRUE

----------------------------------------------------------------------------
(* 1. Read deal data from text file (lines 38-59) *)

\* line.startswith('|')
startswith_bar(line) == line.kind = "data"

\* data: the field lists of the lines that start with '|', in order
data_of(lines) == SelectSeq(lines, startswith_bar)

\* the k-th field of a row after [x.strip() for x in line.split('|')[1:-1]]
\* and the padding of short rows by the DataFrame constructor
Field(row, k, text) == IF k <= row.width THEN strip(text) ELSE None

\* the number of fields of the widest row (0 when there is no row)
MaxWidth(rows) ==
    LET W == {rows[i].width : i \in 1..Len(rows)} \cup {0}
    IN  CHOOSE w \in W : \A v \in W : v <= w

\* mutant: an empty deal file is rejected too
DataFrameRaises_empty(rows) == rows = <<>> \/ MaxWidth(rows) # NumColumns

\* mutant: rows narrower than the column list are accepted
DataFrameRaises_wide(rows) == rows # <<>> /\ MaxWidth(rows) > NumColumns

\* pd.DataFrame(data, columns=columns) raises ValueError unless the widest
\* row has exactly len(columns) fields; no rows at all give an empty frame
DataFrameRaises(rows) == rows # <<>> /\ MaxWidth(rows) # NumColumns

\* one row of deal_df after line 62 has converted xd_date; k is the number of
\* cells the constructor gives every row (the width of the widest row)
DealRow(row, k) ==
    [width |-> k,
     xd_date |-> to_datetime(Field(row, XdDateCol, row.xd_date)),
     net_domestic_amount_to_purify |-> Field(row, RatioCol, row.ratio),
     isin |-> Field(row, IsinCol, row.isin)]

DataFrame(rows) == [i \in 1..Len(rows) |-> DealRow(rows[i], MaxWidth(rows))]

(* Filter deal_df based on calculation_date (lines 62-67) *)

\* mutant: NaT is compared like a date
OnOrBefore_nat(xd, asof) == xd <= asof

\* deal_df['xd_date'] <= pd.to_datetime(calculation_date); NaT compares False
OnOrBefore(xd, asof) == xd # NaT /\ xd <= asof

FilterByDate(df, asof) ==
    LET keep(r) == OnOrBefore(r.xd_date, asof)
    IN  SelectSeq(df, keep)

----------------------------------------------------------------------------
(* 3. Split report into summary and details (lines 74-83) *)

\* positions of the rows whose column 0 equals v
RowsWithFirstCell(df, v) == {i \in 1..Len(df) : df[i].c0 = v}

Min(S) == CHOOSE x \in S : \A y \in S : x <= y

\* .index[0] of the selection: the first such row
FirstRowWith(df, v) == Min(RowsWithFirstCell(df, v))

details_header_index(df) == FirstRowWith(df, DetailsMarker) + HeaderOffset

\* line 74: .index[0] on an empty selection raises IndexError
NoMarkerRow(df) == RowsWithFirstCell(df, DetailsMarker) = {}

\* line 80: .iloc[details_header_index] past the last row raises IndexError
HeaderPastEnd(df) == details_header_index(df) > Len(df)

\* line 83: details_df['Security Sedol'] on a header row without that name
SplitRaisesKeyError(df) == df[details_header_index(df)].sedol # SedolName

\* report_df.iloc[:details_header_index]
summary_of(df) ==
    LET h == details_header_index(df)
    IN  SubSeq(df, 1, IF h - 1 < Len(df) THEN h - 1 ELSE Len(df))

\* report_df.iloc[details_data_start_index:]
details_raw(df) ==
    LET h == details_header_index(df)
    IN  IF h >= Len(df) THEN <<>> ELSE SubSeq(df, h + 1, Len(df))

\* the details block after line 83 has made 'Security Sedol' a string
details_of(df) ==
    [i \in 1..Len(details_raw(df)) |->
        [details_raw(df)[i] EXCEPT !.sedol = astype_str(details_raw(df)[i].sedol)]]

----------------------------------------------------------------------------
(* Validation checks (lines 87-101) *)

excel_securities_of(details) == {details[i].sedol : i \in 1..Len(details)}

deal_securities_of(filtered) == {filtered[i].isin : i \in 1..Len(filtered)}

\* len(excel_securities) != len(deal_securities)
CountMismatch(excel, deal) == Cardinality(excel) # Cardinality(deal)

\* deal_df_filtered[deal_df_filtered.duplicated(subset=['isin'], keep=False)]['isin'].unique()
duplicate_isins_of(filtered) ==
    {filtered[i].isin : i \in {j \in 1..Len(filtered) :
        \E k \in 1..Len(filtered) : k # j /\ filtered[k].isin = filtered[j].isin}}

\* ', '.join(duplicate_isins) raises TypeError on an item that is not a str
JoinRaises(isins) == None \in isins

NoWarnings ==
    [mismatch |-> FALSE, only_excel |-> {}, only_text |-> {},
     duplicates |-> {}, no_match |-> FALSE]

----------------------------------------------------------------------------
(* 4. Merge (lines 104-108) *)

\* the rows of right whose isin equals key, in right's order
Matches(right, key) ==
    LET hit(r) == r.isin = key
    IN  SelectSeq(right, hit)

\* mutant: an inner join, which drops the left rows without a match
JoinRow_inner(l, right) ==
    LET m == Matches(right, l.sedol)
    IN  [i \in 1..Len(m) |->
           [c0 |-> l.c0, c3 |-> l.c3, sedol |-> l.sedol, accrued |-> l.accrued,
            net_domestic_amount_to_purify |-> m[i].net_domestic_amount_to_purify,
            isin |-> m[i].isin]]

\* the output rows of the left join for one left row
JoinRow(l, right) ==
    LET m == Matches(right, l.sedol)
    IN  IF m = <<>>
        THEN <<[c0 |-> l.c0, c3 |-> l.c3, sedol |-> l.sedol, accrued |-> l.accrued,
                net_domestic_amount_to_purify |-> None, isin |-> None]>>
        ELSE [i \in 1..Len(m) |->
               [c0 |-> l.c0, c3 |-> l.c3, sedol |-> l.sedol, accrued |-> l.accrued,
                net_domestic_amount_to_purify |-> m[i].net_domestic_amount_to_purify,
                isin |-> m[i].isin]]

\* pd.merge(left, right, left_on='Security Sedol', right_on='isin', how='left')
RECURSIVE merge_left(_, _)
merge_left(left, right) ==
    IF left = <<>> THEN <<>>
    ELSE JoinRow(Head(left), right) \o merge_left(Tail(left), right)

----------------------------------------------------------------------------
(* Compute, clean up and total (lines 110-118) *)

EnrichedRow(m) ==
    LET ratio == replace_blank_to_numeric(m.net_domestic_amount_to_purify)
        accrued == to_numeric(m.accrued)
    IN  [c0 |-> m.c0, c3 |-> m.c3, sedol |-> m.sedol, accrued |-> accrued,
         net_domestic_amount_to_purify |-> fillna0(ratio),
         NPI_Base |-> fillna0(Times(ratio, accrued))]

enrich(merged) == [i \in 1..Len(merged) |-> EnrichedRow(merged[i])]

\* details_df['NPI Base'].sum()
sum_npi(details) ==
    SumSeq([i \in 1..Len(details) |->
              IF details[i].NPI_Base = NaN THEN 0 ELSE ValueOf(details[i].NPI_Base)])

(* 6. Add total to summary (lines 121-128) *)

total_row_index(summary) == FirstRowWith(summary, TotalLabel)

NoTotalRow(summary) == RowsWithFirstCell(summary, TotalLabel) = {}

new_row(total) ==
    [c0 |-> TotalNpiLabel, c3 |-> {total}, sedol |-> BlankCell, accrued |-> BlankCell]

\* mutant: the new row goes in front of the anchor row
insert_before(summary, idx, row) ==
    SubSeq(summary, 1, idx - 1) \o <<row>> \o SubSeq(summary, idx, Len(summary))

\* pd.concat([summary.iloc[:idx+1], new_row, summary.iloc[idx+1:]])
insert_after(summary, idx, row) ==
    SubSeq(summary, 1, idx) \o <<row>> \o SubSeq(summary, idx + 1, Len(summary))

----------------------------------------------------------------------------
(* Inputs of a run: the uploaded files and the calculation date *)

SchemaLine == [kind |-> "schema", width |-> 0, xd_date |-> None, ratio |-> None, isin |-> None]
SentinelLine == [kind |-> "sentinel", width |-> 0, xd_date |-> None, ratio |-> None, isin |-> None]
EodLine == [kind |-> "eod", width |-> 0, xd_date |-> None, ratio |-> None, isin |-> None]

\* a data line of w fields; a field past the end of the line has no text
DataLine(w, x, r, i) ==
    [kind |-> "data", width |-> w,
     xd_date |-> IF w >= XdDateCol THEN x ELSE None,
     ratio |-> IF w >= RatioCol THEN r ELSE None,
     isin |-> IF w >= IsinCol THEN i ELSE None]

\* well-formed data lines: 46 fields
FullLines ==
    {DataLine(NumColumns, x, r, i) :
        x \in {"20250323", "20250324", "20251301"}, r \in {"0.05", "0.10"}, i \in {"A", "B"}}

\* data lines of any width, with padded, empty and non-numeric texts
RaggedLines ==
    {DataLine(NumColumns, "20250323", "0.05 ", "A "),
     DataLine(NumColumns, "20250228", "", " B"),
     DataLine(NumColumns, "20250229", "n/a", "A"),
     DataLine(NumColumns + 1, "20250323", "0.05", "A"),
     DataLine(RatioCol, "20250323", "0.10", None),
     DataLine(XdDateCol - 1, None, None, None)}

Prefixes == {<<>>, <<SchemaLine>>, <<SentinelLine>>, <<SchemaLine, SentinelLine>>}

Cell(a, b, c, d) == [c0 |-> a, c3 |-> b, sedol |-> c, accrued |-> d]

TitleRow == Cell("Dividends Receivable", NaN, BlankCell, BlankCell)
TotalRow(v) == Cell(TotalLabel, {v}, BlankCell, BlankCell)
NetRow == Cell("Net", {7}, BlankCell, BlankCell)
MarkerRow == Cell(DetailsMarker, NaN, BlankCell, BlankCell)
BlankRow == Cell(BlankCell, NaN, BlankCell, BlankCell)
HeaderRow(s, a) == Cell("Fund", NaN, s, a)
DetailRow(s, a) == Cell("F1", NaN, s, a)

\* a report in the expected layout around the given details rows
StandardReport(details) ==
    <<TitleRow, TotalRow(1000), MarkerRow, BlankRow, HeaderRow(SedolName, AccruedName)>>
        \o details

\* what may follow the summary rows of a report
Tails ==
    {<<>>} \cup
    UNION {{<<b>>} \cup
           {<<b, h>> \o d :
               h \in {HeaderRow(SedolName, AccruedName), HeaderRow("Sedol", AccruedName),
                      HeaderRow(SedolName, "Accrued Income Net (Base)")},
               d \in SeqUpTo({DetailRow("A", "1000")}, 1)} :
           b \in {BlankRow, TotalRow(300)}}

Layouts ==
    {pre \o m \o t :
        pre \in SeqUpTo({TotalRow(100), TotalRow(200), NetRow}, MaxSummary),
        m \in {<<>>, <<MarkerRow>>},
        t \in Tails}

\* runs that vary the deal records and the details rows
InitReconcile ==
    /\ calculation_date = 20250323
    /\ \E rows \in SeqUpTo(FullLines, MaxDeal) :
         deal_lines = <<SchemaLine, SentinelLine>> \o rows \o <<EodLine>>
    /\ \E details \in SeqUpTo({DetailRow(s, "1000") : s \in {"A", "B"}}, MaxDetails) :
         report_df = StandardReport(details)

\* runs that vary the shape of the deal text
InitFormat ==
    /\ calculation_date = 20250323
    /\ \E pre \in Prefixes, rows \in SeqUpTo(RaggedLines, MaxRagged) :
         deal_lines = pre \o rows
    /\ report_df = StandardReport(<<DetailRow("A", "1000"), DetailRow(BlankCell, "n/a")>>)

\* runs that vary the layout of the report
InitLayout ==
    /\ calculation_date = 20250323
    /\ deal_lines = <<SchemaLine, SentinelLine,
                      DataLine(NumColumns, "20250323", "0.05", "A"), EodLine>>
    /\ report_df \in Layouts

Init ==
    /\ pc = "Idle"
    /\ InitReconcile \/ InitFormat \/ InitLayout
    /\ deal_df = <<>>
    /\ deal_df_filtered = <<>>
    /\ summary_df = <<>>
    /\ details_df = <<>>
    /\ merged_df = <<>>
    /\ warnings = NoWarnings
    /\ npi_base_total = 0
    /\ error = ""
    /\ output = <<>>
    /\ trail = <<"Idle">>

----------------------------------------------------------------------------
(* The run *)

inputs == <<calculation_date, deal_lines, report_df>>

\* line 33: both files are uploaded
Start ==
    /\ pc = "Idle"
    /\ pc' = "Parsing"
    /\ UNCHANGED <<inputs, deal_df, deal_df_filtered, summary_df, details_df, merged_df,
                   warnings, npi_base_total, error, output>>
    /\ trail' = Append(trail, pc')

\* lines 38-67: read the deal text, build deal_df, convert and filter by date
ParseDeal ==
    /\ pc = "Parsing"
    /\ LET data == data_of(deal_lines)
       IN  IF DataFrameRaises(data)
           THEN /\ pc' = "Aborted"
                /\ error' = "ValueError"
                /\ UNCHANGED <<deal_df, deal_df_filtered>>
           ELSE /\ pc' = "Splitting"
                /\ deal_df' = DataFrame(data)
                /\ deal_df_filtered' = FilterByDate(DataFrame(data), calculation_date)
                /\ error' = error
    /\ UNCHANGED <<inputs, summary_df, details_df, merged_df, warnings, npi_base_total, output>>
    /\ trail' = Append(trail, pc')

\* lines 70-83: split the report into summary and details
SplitReport ==
    /\ pc = "Splitting"
    /\ IF NoMarkerRow(report_df)
       THEN /\ pc' = "Aborted"
            /\ error' = "IndexError"
            /\ UNCHANGED <<summary_df, details_df>>
       ELSE IF HeaderPastEnd(report_df)
       THEN /\ pc' = "Aborted"
            /\ error' = "IndexError"
            /\ summary_df' = summary_of(report_df)
            /\ details_df' = details_raw(report_df)
       ELSE IF SplitRaisesKeyError(report_df)
       THEN /\ pc' = "Aborted"
            /\ error' = "KeyError"
            /\ summary_df' = summary_of(report_df)
            /\ details_df' = details_raw(report_df)
       ELSE /\ pc' = "Validating"
            /\ summary_df' = summary_of(report_df)
            /\ details_df' = details_of(report_df)
            /\ error' = error
    /\ UNCHANGED <<inputs, deal_df, deal_df_filtered, merged_df, warnings, npi_base_total, output>>
    /\ trail' = Append(trail, pc')

\* lines 87-101: security count check and duplicate ISIN check
Validate ==
    /\ pc = "Validating"
    /\ LET excel_securities == excel_securities_of(details_df)
           deal_securities == deal_securities_of(deal_df_filtered)
           duplicate_isins == duplicate_isins_of(deal_df_filtered)
           counted == IF CountMismatch(excel_securities, deal_securities)
                      THEN [warnings EXCEPT !.mismatch = TRUE,
                                            !.only_excel = excel_securities \ deal_securities,
                                            !.only_text = deal_securities \ excel_securities]
                      ELSE warnings
       IN  IF duplicate_isins # {} /\ JoinRaises(duplicate_isins)
           THEN /\ pc' = "Aborted"
                /\ error' = "TypeError"
                /\ warnings' = counted
           ELSE /\ pc' = "Merging"
                /\ warnings' = [counted EXCEPT !.duplicates = duplicate_isins]
                /\ error' = error
    /\ UNCHANGED <<inputs, deal_df, deal_df_filtered, summary_df, details_df, merged_df,
                   npi_base_total, output>>
    /\ trail' = Append(trail, pc')

\* lines 104-108: left join; st.stop() when the result has no rows
Merge ==
    /\ pc = "Merging"
    /\ merged_df' = merge_left(details_df, deal_df_filtered)
    /\ IF merge_left(details_df, deal_df_filtered) = <<>>
       THEN /\ pc' = "Aborted"
            /\ warnings' = [warnings EXCEPT !.no_match = TRUE]
       ELSE /\ pc' = "Totaling"
            /\ warnings' = warnings
    /\ UNCHANGED <<inputs, deal_df, deal_df_filtered, summary_df, details_df,
                   npi_base_total, error, output>>
    /\ trail' = Append(trail, pc')

\* the header row names the accrued income column (else line 111 raises KeyError)
HasAccruedColumn(df) == df[details_header_index(df)].accrued = AccruedName

\* mutant: a summary without a 'Total' row is rendered as it is
Total_swallow ==
    /\ pc = "Totaling"
    /\ IF ~HasAccruedColumn(report_df)
       THEN /\ pc' = "Aborted"
            /\ error' = "KeyError"
            /\ UNCHANGED <<summary_df, details_df, npi_base_total>>
       ELSE /\ pc' = "Rendering"
            /\ details_df' = enrich(merged_df)
            /\ npi_base_total' = sum_npi(enrich(merged_df))
            /\ summary_df' =
                 IF NoTotalRow(summary_df) THEN summary_df
                 ELSE insert_after(summary_df, total_row_index(summary_df),
                                   new_row(sum_npi(enrich(merged_df))))
            /\ error' = error
    /\ UNCHANGED <<inputs, deal_df, deal_df_filtered, merged_df, warnings, output>>
    /\ trail' = Append(trail, pc')

\* lines 110-128: NPI Base, its total, and the total row added to the summary
Total ==
    /\ pc = "Totaling"
    /\ IF ~HasAccruedColumn(report_df)
       THEN /\ pc' = "Aborted"
            /\ error' = "KeyError"
            /\ UNCHANGED <<summary_df, details_df, npi_base_total>>
       ELSE IF NoTotalRow(summary_df)
       THEN /\ pc' = "Aborted"
            /\ error' = "IndexError"
            /\ details_df' = enrich(merged_df)
            /\ npi_base_total' = sum_npi(enrich(merged_df))
            /\ UNCHANGED summary_df
       ELSE /\ pc' = "Rendering"
            /\ details_df' = enrich(merged_df)
            /\ npi_base_total' = sum_npi(enrich(merged_df))
            /\ summary_df' = insert_after(summary_df, total_row_index(summary_df),
                                          new_row(sum_npi(enrich(merged_df))))
            /\ error' = error
    /\ UNCHANGED <<inputs, deal_df, deal_df_filtered, merged_df, warnings, output>>
    /\ trail' = Append(trail, pc')

\* lines 131-142: write the workbook and offer it for download
Render ==
    /\ pc = "Rendering"
    /\ pc' = "Done"
    /\ output' = <<[summary |-> summary_df, details |-> details_df]>>
    /\ UNCHANGED <<inputs, deal_df, deal_df_filtered, summary_df, details_df, merged_df,
                   warnings, npi_base_total, error>>
    /\ trail' = Append(trail, pc')

Next == Start \/ ParseDeal \/ SplitReport \/ Validate \/ Merge \/ Total \/ Render

Spec == Init /\ [][Next]_vars

----------------------------------------------------------------------------
(* The inputs as the properties below read them *)

IsData(l) == l.kind = "data"
DataLines == SelectSeq(deal_lines, IsData)
DataWidths == {DataLines[i].width : i \in 1..Len(DataLines)}

\* the row of the report that carries the details marker (when there is one)
MarkerAt ==
    CHOOSE i \in 1..Len(report_df) :
        /\ report_df[i].c0 = DetailsMarker
        /\ \A j \in 1..(i - 1) : report_df[j].c0 # DetailsMarker

WellFormedReport ==
    /\ \E i \in 1..Len(report_df) : report_df[i].c0 = DetailsMarker
    /\ MarkerAt + 2 <= Len(report_df)
    /\ report_df[MarkerAt + 2].sedol = SedolName

\* the Summary block and the Details rows of the report
SummaryBlock == SubSeq(report_df, 1, MarkerAt + 1)
DetailsRows == SubSeq(report_df, MarkerAt + 3, Len(report_df))
DetailsId(i) == IF DetailsRows[i].sedol = "" THEN "nan" ELSE DetailsRows[i].sedol
DetailsIds == {DetailsId(i) : i \in 1..Len(DetailsRows)}

\* the identifiers of the date-filtered deal file
FilteredIds == {deal_df_filtered[k].isin : k \in 1..Len(deal_df_filtered)}

Validated == pc \in {"Merging", "Totaling", "Rendering", "Done"}
Offered == output # <<>>
Enriched == output[1].details

RECURSIVE SumNpiUpTo(_, _)
SumNpiUpTo(rows, n) ==
    IF n = 0 THEN 0
    ELSE SumNpiUpTo(rows, n - 1) + (CHOOSE v \in rows[n].NPI_Base : TRUE)

----------------------------------------------------------------------------
\* C1: in every run that offers an output, every Details row of the report
\* is present in the enriched details block (same identifier and cells, and
\* at least as many enriched rows as Details rows), and every enriched row
\* whose identifier is the isin of no record of the date-filtered deal file
\* has NPI Base = 0, never a missing value.
C1_DefaultToZero ==
    Offered =>
        /\ Len(Enriched) >= Len(DetailsRows)
        /\ \A i \in 1..Len(DetailsRows) :
             \E j \in 1..Len(Enriched) :
                /\ Enriched[j].sedol = DetailsId(i)
                /\ Enriched[j].c0 = DetailsRows[i].c0
                /\ Enriched[j].c3 = DetailsRows[i].c3
        /\ \A j \in 1..Len(Enriched) :
             Enriched[j].sedol \notin FilteredIds => Enriched[j].NPI_Base = {0}

\* an output with an unmatched Details row beside a matched one with NPI > 0
C1_Witness ==
    /\ Offered
    /\ \E j \in 1..Len(Enriched) : Enriched[j].sedol \notin FilteredIds
    /\ \E j \in 1..Len(Enriched) :
         Enriched[j].sedol \in FilteredIds /\ Enriched[j].NPI_Base # {0}

\* C2 (as stated): a Details row whose identifier occurs more than once in
\* the date-filtered deal file appears exactly once in the enriched block,
\* so the number of enriched rows equals the number of Details rows.
C2_OneRowPerDetailsRow ==
    Offered => Len(Enriched) = Len(DetailsRows)

\* C3 (as stated): when the Details identifiers and the identifiers of the
\* date-filtered deal file are disjoint and the report has at least one
\* Details row, the run aborts with the no-match warning and offers no output.
C3_EmptyJoinAborts ==
    (/\ merged_df # <<>> \/ warnings.no_match
     /\ Len(DetailsRows) >= 1
     /\ DetailsIds \cap FilteredIds = {})
        => (pc = "Aborted" /\ warnings.no_match /\ ~Offered)

\* the first row of the Summary block whose first cell is 'Total'
AnchorAt ==
    CHOOSE k \in 1..Len(SummaryBlock) :
        /\ SummaryBlock[k].c0 = TotalLabel
        /\ \A j \in 1..(k - 1) : SummaryBlock[j].c0 # TotalLabel

\* C4: total injection inserts exactly one row into the Summary block,
\* immediately after the first row whose first cell is 'Total'; the new row
\* has first cell 'Total NPI' and in column 3 the sum of NPI Base over all
\* enriched Details rows; every other Summary row is unchanged, the rows
\* after the anchor one position lower; the offered workbook carries it.
C4_TotalInjection ==
    pc \in {"Rendering", "Done"} =>
        /\ Len(summary_df) = Len(SummaryBlock) + 1
        /\ summary_df[AnchorAt + 1].c0 = TotalNpiLabel
        /\ summary_df[AnchorAt + 1].c3 = {SumNpiUpTo(details_df, Len(details_df))}
        /\ \A i \in 1..AnchorAt : summary_df[i] = SummaryBlock[i]
        /\ \A i \in (AnchorAt + 1)..Len(SummaryBlock) : summary_df[i + 1] = SummaryBlock[i]
        /\ Offered => output[1].summary = summary_df

\* a finished run whose Summary block has two 'Total' rows, rows after the
\* first of them, and a total that is not zero
C4_Witness ==
    /\ pc = "Done"
    /\ Cardinality({i \in 1..Len(SummaryBlock) : SummaryBlock[i].c0 = TotalLabel}) >= 2
    /\ AnchorAt < Len(SummaryBlock)
    /\ npi_base_total > 0

\* the identifiers that occur more than once in the date-filtered deal file
RepeatedIds ==
    {id \in FilteredIds :
        Cardinality({k \in 1..Len(deal_df_filtered) : deal_df_filtered[k].isin = id}) > 1}

\* the validation checks have been run (to their end or to an exception)
ValidateRan ==
    \/ Validated
    \/ error = "TypeError"
    \/ warnings.no_match

\* C5 (as stated): when the numbers of distinct identifiers differ, the
\* coverage diagnostic names exactly (Details ids minus deal ids) as
\* Excel-only and (deal ids minus Details ids) as text-only; the duplicate-key
\* diagnostic names exactly the identifiers that occur more than once in the
\* filtered deal file; neither diagnostic aborts the run.
C5_DiagnosticsExactAndNonFatal ==
    /\ error # "TypeError"
    /\ Validated =>
         /\ Cardinality(DetailsIds) # Cardinality(FilteredIds) =>
              /\ warnings.mismatch
              /\ warnings.only_excel = DetailsIds \ FilteredIds
              /\ warnings.only_text = FilteredIds \ DetailsIds
         /\ warnings.duplicates = RepeatedIds

\* a data line that the date filter retains: its xd_date field reads as a
\* calendar date YYYYMMDD on or before the calculation date
Retained(l) ==
    /\ l.width >= XdDateCol
    /\ to_datetime(strip(l.xd_date)) \in 1..calculation_date

RetainedLines == SelectSeq(DataLines, Retained)
RetainedIds == {strip(RetainedLines[k].isin) : k \in 1..Len(RetainedLines)}
RetainedRatios(id) ==
    {fillna0(replace_blank_to_numeric(strip(RetainedLines[k].ratio))) :
        k \in {n \in 1..Len(RetainedLines) : strip(RetainedLines[n].isin) = id}}

\* C6: only the deal records whose xd_date, read as YYYYMMDD, is on or
\* before the calculation date take part in the coverage check, the
\* duplicate-key check and the join; a record with an unparsable date is
\* left out like a future-dated one and raises nothing; a Details row that
\* only left-out records match gets NPI Base = 0.
C6_DateFilter ==
    /\ error = "ValueError" => DataWidths # {NumColumns}
    /\ (pc \notin {"Idle", "Parsing"} /\ error # "ValueError") =>
         /\ Len(deal_df_filtered) = Len(RetainedLines)
         /\ \A k \in 1..Len(deal_df_filtered) :
              /\ deal_df_filtered[k].isin = strip(RetainedLines[k].isin)
              /\ deal_df_filtered[k].xd_date \in 1..calculation_date
    /\ Validated =>
         /\ warnings.only_text \subseteq RetainedIds
         /\ warnings.only_excel \cap RetainedIds = {}
         /\ warnings.duplicates \subseteq RetainedIds
         /\ warnings.mismatch <=> Cardinality(DetailsIds) # Cardinality(RetainedIds)
    /\ Offered =>
         \A j \in 1..Len(Enriched) :
            IF Enriched[j].sedol \in RetainedIds
            THEN Enriched[j].net_domestic_amount_to_purify \in RetainedRatios(Enriched[j].sedol)
            ELSE Enriched[j].NPI_Base = {0} /\ Enriched[j].net_domestic_amount_to_purify = {0}

\* an output in which a Details row is matched only by a record with an
\* unparsable date and another only by a future-dated record
C6_Witness ==
    /\ Offered
    /\ \E i \in 1..Len(DataLines), j \in 1..Len(Enriched) :
         /\ DataLines[i].width >= IsinCol
         /\ to_datetime(strip(DataLines[i].xd_date)) = NaT
         /\ strip(DataLines[i].isin) = Enriched[j].sedol
         /\ Enriched[j].sedol \notin RetainedIds
         /\ Enriched[j].NPI_Base = {0}
    /\ \E i \in 1..Len(DataLines), j \in 1..Len(Enriched) :
         /\ to_datetime(strip(DataLines[i].xd_date)) > calculation_date
         /\ strip(DataLines[i].isin) = Enriched[j].sedol
         /\ Enriched[j].sedol \notin RetainedIds

HasLine(k) == \E i \in 1..Len(deal_lines) : deal_lines[i].kind = k
Widest == CHOOSE w \in DataWidths : \A v \in DataWidths : v <= w
Parsed == pc \notin {"Idle", "Parsing"}

Stages == <<"Idle", "Parsing", "Validating", "Merging", "Totaling", "Rendering", "Done">>
Stage(p) == IF p = "Splitting" THEN "Parsing" ELSE p
StageNo(p) == CHOOSE n \in 1..Len(Stages) : Stages[n] = Stage(p)
Terminal == {"Done", "Aborted"}

C9_State ==
    /\ Offered => pc = "Done"
    /\ pc = "Done" =>
         /\ Offered /\ error = "" /\ merged_df # <<>>
         /\ \E i \in 1..Len(summary_df) : summary_df[i].c0 = TotalNpiLabel
    /\ error # "" => pc = "Aborted"
    /\ pc = "Aborted" => (error # "" \/ warnings.no_match)
    /\ pc \in {"Validating", "Merging", "Totaling", "Rendering", "Done"} => WellFormedReport
    /\ pc \in {"Rendering", "Done"} =>
         \E i \in 1..Len(SummaryBlock) : SummaryBlock[i].c0 = TotalLabel

C9_Order ==
    /\ trail[Len(trail)] = pc
    /\ \A n \in 1..(Len(trail) - 1) :
         /\ trail[n] \notin Terminal
         /\ \/ trail[n + 1] = "Aborted"
            \/ trail[n + 1] # "Aborted" /\ StageNo(trail[n + 1]) = StageNo(trail[n]) + 1
            \/ trail[n] = "Parsing" /\ trail[n + 1] = "Splitting"

\* C9: a run goes through Parsing, Validating, Merging, Totaling and
\* Rendering in that order and ends in Done or in Aborted; the workbook is
\* offered only in Done, after every earlier stage; an exception in any
\* stage (a report without the details marker, a Summary block without a
\* 'Total' row) leads to Aborted with the error reported and no output;
\* nothing follows Done or Aborted.  Every step moves to the next stage or
\* to Aborted, and a run that is in neither Done nor Aborted can take a step,
\* so every run ends in one of the two.
C9_Pipeline ==
    /\ C9_State
    /\ C9_Order
    /\ pc \in Terminal <=> ~ENABLED Next

\* a run that has gone through every stage and offers the workbook
C9_Witness == pc = "Done" /\ Offered /\ npi_base_total > 0

\* C10 (as stated): the coverage diagnostic is emitted if and only if the
\* two sets of distinct identifiers differ in size; when they have the same
\* size and different members no coverage diagnostic is emitted and the run
\* proceeds to the join.
C10_CoverageBySizeOnly ==
    ValidateRan =>
        /\ warnings.mismatch <=> Cardinality(DetailsIds) # Cardinality(FilteredIds)
        /\ (Cardinality(DetailsIds) = Cardinality(FilteredIds) /\ DetailsIds # FilteredIds)
              => (~warnings.mismatch /\ error # "TypeError")

====
